---- MODULE Spec2Model ----
(***************************************************************************)
(* Pathfinding Visualizer (src/main.py): the grid of Nodes, the mouse and  *)
(* keyboard handler of main(), and the A* search of algorithm() with its   *)
(* path reconstruction, as a state machine.  A state of the search is a    *)
(* frame: the loop of algorithm() is split at its draw() call, and every   *)
(* step of reconstruct_path() is one action.                               *)
(***************************************************************************)
EXTENDS Integers, Sequences, FiniteSets, TLC

\* ------------------------------------------------------------- bounds
\* Side of the grid main() builds (the program uses 40).
ROWS == 3
\* Mouse events handled per grid lifetime (a clear starts a new grid).
MaxClicks == 4
\* Largest side of a grid handed to algorithm() directly.
MaxRows == 3
\* Most Wall cells of a grid handed to algorithm() directly.
MaxWalls == 3
\* Largest side of a grid with no Wall handed to algorithm() directly.
OpenRows == 5

\* ------------------------------------------------------------- colours
default == "default"
blue == "start"
black == "wall"
turquoise == "closed"
cyan == "open"
yellow == "end"
white == "path"

\* Python's None, for main()'s start and end and for an absent dict key.
None == <<-1, -1>>
\* float("inf"), the default of g_score and f_score.
Inf == -1

VARIABLES
  total_rows,     \* Node.total_rows: the side of the grid
  color,          \* Node.color of every node of the grid
  neighbors,      \* Node.neighbors of every node of the grid
  start, end,     \* main()'s start and end / algorithm()'s arguments
  clicks,         \* mouse events handled on this grid
  pc,             \* "main", "loop", "drawn", "reconstruct", "returned", "exit"
  ret,            \* what algorithm() returned (None once main() goes on)
  count,          \* algorithm(): insertion sequence number
  open_set,       \* algorithm(): the PriorityQueue, a set of <<f, count, node>>
  open_set_hash,  \* algorithm(): the nodes taken to be queued
  came_from,      \* algorithm(): predecessor of a node (None: no key)
  g_score,        \* algorithm(): g of every node
  f_score,        \* algorithm(): f of every node
  current,        \* algorithm(): the popped node / reconstruct_path(): current
  walked,         \* predecessor steps reconstruct_path() has walked
  rdraws,         \* draw() calls reconstruct_path() has made
  pathTagged,     \* nodes make_path() was called on by this run
  walls0,         \* nodes that were Wall when this run was started
  pops            \* the entries open_set.get() has returned in this run

vars == <<total_rows, color, neighbors, start, end, clicks, pc, ret, count,
          open_set, open_set_hash, came_from, g_score, f_score, current,
          walked, rdraws, pathTagged, walls0, pops>>

gridVars == <<total_rows, color, neighbors, start, end, clicks>>
runVars == <<count, open_set, open_set_hash, came_from, g_score, f_score,
             current, walked, rdraws, pathTagged, walls0, pops>>

\* ------------------------------------------------------------- the grid
\* make_grid: one node per <<row, col>>.
Nodes(n) == (0 .. n - 1) \X (0 .. n - 1)

Abs(x) == IF x < 0 THEN -x ELSE x

\* heuristic(p1, p2)
heuristic(p1, p2) == Abs(p1[1] - p2[1]) + Abs(p1[2] - p2[2])

\* Node.is_wall
is_wall_never(col, node) == FALSE
is_wall(col, node) == col[node] = black

\* Node.update_neighbors: down, up, right, left, walls left out.
update_neighbors_no_left(col, n, node) ==
  LET row == node[1]
      c == node[2]
      down == IF row < n - 1 /\ col[<<row + 1, c>>] # black
              THEN <<(<<row + 1, c>>)>> ELSE <<>>
      up == IF row > 0 /\ col[<<row - 1, c>>] # black
            THEN <<(<<row - 1, c>>)>> ELSE <<>>
      right == IF c < n - 1 /\ col[<<row, c + 1>>] # black
               THEN <<(<<row, c + 1>>)>> ELSE <<>>
  IN down \o up \o right
update_neighbors_down_any(col, n, node) ==
  LET row == node[1]
      c == node[2]
      down == IF row < n - 1 THEN <<(<<row + 1, c>>)>> ELSE <<>>
      up == IF row > 0 /\ ~is_wall(col, <<row - 1, c>>)
            THEN <<(<<row - 1, c>>)>> ELSE <<>>
      right == IF c < n - 1 /\ ~is_wall(col, <<row, c + 1>>)
               THEN <<(<<row, c + 1>>)>> ELSE <<>>
      left == IF c > 0 /\ ~is_wall(col, <<row, c - 1>>)
              THEN <<(<<row, c - 1>>)>> ELSE <<>>
  IN down \o up \o right \o left
update_neighbors(col, n, node) ==
  LET row == node[1]
      c == node[2]
      down == IF row < n - 1 /\ ~is_wall(col, <<row + 1, c>>)
              THEN <<(<<row + 1, c>>)>> ELSE <<>>
      up == IF row > 0 /\ ~is_wall(col, <<row - 1, c>>)
            THEN <<(<<row - 1, c>>)>> ELSE <<>>
      right == IF c < n - 1 /\ ~is_wall(col, <<row, c + 1>>)
               THEN <<(<<row, c + 1>>)>> ELSE <<>>
      left == IF c > 0 /\ ~is_wall(col, <<row, c - 1>>)
              THEN <<(<<row, c - 1>>)>> ELSE <<>>
  IN down \o up \o right \o left

\* Lines 254-256: update_neighbors on every node of a grid of side n, old
\* being the lists the nodes had (line 78 throws them away).
update_all_no_reset(col, n, old) ==
  [x \in Nodes(n) |-> old[x] \o update_neighbors(col, n, x)]
update_all(col, n, old) ==
  [x \in Nodes(n) |-> update_neighbors(col, n, x)]

\* a < b on g-scores, where either may be float("inf")
NotEqual(a, b) == a # b
Lt(a, b) == a # Inf /\ (b = Inf \/ a < b)

\* tuple order of the PriorityQueue: f first, then count (counts are unique,
\* so two nodes are never compared)
EntryLessLifo(a, b) == a[1] < b[1] \/ (a[1] = b[1] /\ a[2] > b[2])
EntryLess(a, b) == a[1] < b[1] \/ (a[1] = b[1] /\ a[2] < b[2])

\* open_set.get(): the least entry
QueueMin(q) == CHOOSE e \in q : \A o \in q \ {e} : EntryLess(e, o)

\* ------------------------------------------------------------- algorithm()
\* The values the locals of algorithm() have when no search is running.
NoRun ==
  /\ count = 0
  /\ open_set = {}
  /\ open_set_hash = {}
  /\ came_from = <<>>
  /\ g_score = <<>>
  /\ f_score = <<>>
  /\ current = None
  /\ walked = 0
  /\ rdraws = 0
  /\ pathTagged = {}
  /\ walls0 = {}
  /\ pops = {}

NoRunNext ==
  /\ count' = 0
  /\ open_set' = {}
  /\ open_set_hash' = {}
  /\ came_from' = <<>>
  /\ g_score' = <<>>
  /\ f_score' = <<>>
  /\ current' = None
  /\ walked' = 0
  /\ rdraws' = 0
  /\ pathTagged' = {}
  /\ walls0' = {}
  /\ pops' = {}

\* algorithm(), lines 110-125: the locals before the loop.
AlgorithmEntry(n, s, e) ==
  /\ walls0' = {x \in Nodes(n) : color'[x] = black}
  /\ count' = 0
  /\ open_set' = {<<0, 0, s>>}
  /\ came_from' = [x \in Nodes(n) |-> None]
  /\ g_score' = [x \in Nodes(n) |-> IF x = s THEN 0 ELSE Inf]
  /\ f_score' = [x \in Nodes(n) |-> IF x = s THEN heuristic(s, e) ELSE Inf]
  /\ open_set_hash' = {s}
  /\ current' = None
  /\ walked' = 0
  /\ rdraws' = 0
  /\ pathTagged' = {}
  /\ pops' = {}

\* The body of "for neighbor in current.neighbors" for one neighbor, on the
\* record st of the locals it reads and writes.
RelaxPushAlways(st, cur, neighbor, e) ==
  LET tmp_g == st.g[cur] + 1
  IN IF Lt(tmp_g, st.g[neighbor])
     THEN LET f == tmp_g + heuristic(neighbor, e)
          IN [st EXCEPT !.came[neighbor] = cur,
                        !.g[neighbor] = tmp_g,
                        !.f[neighbor] = f,
                        !.count = st.count + 1,
                        !.q = st.q \cup {<<f, st.count + 1, neighbor>>},
                        !.hash = st.hash \cup {neighbor},
                        !.color[neighbor] = cyan]
     ELSE st
RelaxKeepParent(st, cur, neighbor, e) ==
  LET tmp_g == st.g[cur] + 1
  IN IF Lt(tmp_g, st.g[neighbor])
     THEN LET f == tmp_g + heuristic(neighbor, e)
              upd == [st EXCEPT !.came[neighbor] =
                                   IF st.came[neighbor] = None THEN cur
                                   ELSE st.came[neighbor],
                                !.g[neighbor] = tmp_g,
                                !.f[neighbor] = f]
          IN IF neighbor \notin st.hash
             THEN [upd EXCEPT !.count = st.count + 1,
                              !.q = st.q \cup {<<f, st.count + 1, neighbor>>},
                              !.hash = st.hash \cup {neighbor},
                              !.color[neighbor] = cyan]
             ELSE upd
     ELSE st
Relax(st, cur, neighbor, e) ==
  LET tmp_g == st.g[cur] + 1
  IN IF Lt(tmp_g, st.g[neighbor])
     THEN LET f == tmp_g + heuristic(neighbor, e)
              upd == [st EXCEPT !.came[neighbor] = cur,
                                !.g[neighbor] = tmp_g,
                                !.f[neighbor] = f]
          IN IF neighbor \notin st.hash
             THEN [upd EXCEPT !.count = st.count + 1,
                              !.q = st.q \cup {<<f, st.count + 1, neighbor>>},
                              !.hash = st.hash \cup {neighbor},
                              !.color[neighbor] = cyan]
             ELSE upd
     ELSE st

\* The whole for loop over current.neighbors, in list order.
RelaxFirstOnly(st, cur, nbrs, e) ==
  IF nbrs = <<>> THEN st ELSE Relax(st, cur, Head(nbrs), e)
RECURSIVE RelaxAll(_, _, _, _)
RelaxAll(st, cur, nbrs, e) ==
  IF nbrs = <<>> THEN st
  ELSE RelaxAll(Relax(st, cur, Head(nbrs), e), cur, Tail(nbrs), e)

\* open_set.get(): the queue once its least entry is taken out.
QueuePeek(q) == q
QueueGet(q) == q \ {QueueMin(q)}

\* Lines 136-154 on the record st of the locals, cur just popped: either the
\* popped node is end and reconstruct_path is entered, or its neighbors are
\* relaxed and draw() is reached.
LoopBodyCheckAfter(st, cur, nbrs, e) ==
  [RelaxAll(st, cur, nbrs, e) EXCEPT !.pc = IF cur = e THEN "reconstruct" ELSE "drawn"]
LoopBody(st, cur, nbrs, e) ==
  IF cur = e THEN [st EXCEPT !.pc = "reconstruct"]
  ELSE [RelaxAll(st, cur, nbrs, e) EXCEPT !.pc = "drawn"]

\* One pass of the while loop up to its draw(): pop, then the loop body
\* (cur is the popped node, st the locals after the body).
Expand ==
  /\ pc = "loop"
  /\ open_set # {}
  /\ \E cur \in {QueueMin(open_set)[3]} :
     \E st \in {LoopBody([came |-> came_from, g |-> g_score, f |-> f_score,
                         q |-> QueueGet(open_set),
                         hash |-> open_set_hash \ {cur},
                         count |-> count, color |-> color, pc |-> pc],
                        cur, neighbors[cur], end)} :
        /\ current' = cur
        /\ pc' = st.pc
        /\ open_set' = st.q
        /\ open_set_hash' = st.hash
        /\ came_from' = st.came
        /\ g_score' = st.g
        /\ f_score' = st.f
        /\ count' = st.count
        /\ color' = st.color
  /\ pops' = pops \cup {QueueMin(open_set)}
  /\ UNCHANGED <<total_rows, neighbors, start, end, clicks, ret, walked,
                 rdraws, pathTagged, walls0>>

\* The rest of the pass, after draw(): the popped node is closed unless it
\* is start.
Close ==
  /\ pc = "drawn"
  /\ color' = IF current # start THEN [color EXCEPT ![current] = turquoise]
              ELSE color
  /\ pc' = "loop"
  /\ UNCHANGED <<total_rows, neighbors, start, end, clicks, ret>>
  /\ UNCHANGED runVars

\* The queue is empty: algorithm() returns False.
Exhausted ==
  /\ pc = "loop"
  /\ open_set = {}
  /\ pc' = "returned"
  /\ ret' = FALSE
  /\ UNCHANGED gridVars
  /\ UNCHANGED runVars

\* One pass of the loop of reconstruct_path, which ends in draw().
ReconstructStep ==
  /\ pc = "reconstruct"
  /\ came_from[current] # None
  /\ current' = came_from[current]
  /\ color' = [color EXCEPT ![came_from[current]] = white]
  /\ pathTagged' = pathTagged \cup {came_from[current]}
  /\ walked' = walked + 1
  /\ rdraws' = rdraws + 1
  /\ UNCHANGED <<total_rows, neighbors, start, end, clicks, pc, ret, count,
                 open_set, open_set_hash, came_from, g_score, f_score, walls0,
                 pops>>

\* reconstruct_path is over: end.make_end() and algorithm() returns True.
Found ==
  /\ pc = "reconstruct"
  /\ came_from[current] = None
  /\ color' = [color EXCEPT ![end] = yellow]
  /\ pc' = "returned"
  /\ ret' = TRUE
  /\ UNCHANGED <<total_rows, neighbors, start, end, clicks>>
  /\ UNCHANGED runVars

\* A QUIT event, polled by main() and at the top of every pass of the loop
\* of algorithm(): sys.exit() ends the process, and its grid and locals
\* with it.
Quit ==
  /\ pc \in {"main", "returned", "loop"}
  /\ pc' = "exit"
  /\ color' = <<>>
  /\ neighbors' = <<>>
  /\ start' = None
  /\ end' = None
  /\ clicks' = 0
  /\ ret' = None
  /\ NoRunNext
  /\ UNCHANGED total_rows

\* ------------------------------------------------------------- main()
Mouse == {"none", "left", "right"}
Keys == {"none", "space", "c"}

\* Left button, lines 222-238, on the record m of start, end and color.
LeftClickWallOverEnd(m, node) ==
  IF m.start = None /\ node # m.end
  THEN [m EXCEPT !.start = node, !.color[node] = blue]
  ELSE IF m.end = None /\ node # m.start
  THEN [m EXCEPT !.end = node, !.color[node] = yellow]
  ELSE IF node # m.start
  THEN [m EXCEPT !.color[node] = black]
  ELSE m
LeftClick(m, node) ==
  IF m.start = None /\ node # m.end
  THEN [m EXCEPT !.start = node, !.color[node] = blue]
  ELSE IF m.end = None /\ node # m.start
  THEN [m EXCEPT !.end = node, !.color[node] = yellow]
  ELSE IF node # m.start /\ node # m.end
  THEN [m EXCEPT !.color[node] = black]
  ELSE m

\* Right button, lines 241-249.
RightClickNoReset(m, node) ==
  IF node = m.start THEN [m EXCEPT !.start = None]
  ELSE IF node = m.end THEN [m EXCEPT !.end = None]
  ELSE [m EXCEPT !.color[node] = default]
RightClick(m, node) ==
  LET r == [m EXCEPT !.color[node] = default]
  IN IF node = m.start THEN [r EXCEPT !.start = None]
     ELSE IF node = m.end THEN [r EXCEPT !.end = None]
     ELSE r

\* The mouse part of one event.
MousePart(m, button, node) ==
  IF button = "left" THEN LeftClick(m, node)
  ELSE IF button = "right" THEN RightClick(m, node)
  ELSE m

\* One event of main()'s loop that is not QUIT: the pressed mouse button
\* acts on the node under it, then the key of a KEYDOWN event acts.
HandleEvent(button, node, key) ==
  /\ pc \in {"main", "returned"}
  /\ button # "none" => clicks < MaxClicks
  /\ LET m == MousePart([start |-> start, end |-> end, color |-> color],
                        button, node)
     IN IF key = "space" /\ m.start # None /\ m.end # None
        THEN /\ start' = m.start
             /\ end' = m.end
             /\ color' = m.color
             /\ neighbors' = update_all(m.color, total_rows, neighbors)
             /\ clicks' = IF button = "none" THEN clicks ELSE clicks + 1
             /\ AlgorithmEntry(total_rows, m.start, m.end)
             /\ pc' = "loop"
        ELSE IF key = "c"
        THEN /\ start' = None
             /\ end' = None
             /\ color' = [x \in Nodes(total_rows) |-> default]
             /\ neighbors' = [x \in Nodes(total_rows) |-> <<>>]
             /\ clicks' = 0
             /\ NoRunNext
             /\ pc' = "main"
        ELSE /\ start' = m.start
             /\ end' = m.end
             /\ color' = m.color
             /\ clicks' = IF button = "none" THEN clicks ELSE clicks + 1
             /\ NoRunNext
             /\ pc' = "main"
             /\ UNCHANGED neighbors
  /\ ret' = None
  /\ UNCHANGED total_rows

\* main(), lines 205-212: the state before the first event.
Init ==
  /\ total_rows = ROWS
  /\ color = [x \in Nodes(ROWS) |-> default]
  /\ neighbors = [x \in Nodes(ROWS) |-> <<>>]
  /\ start = None
  /\ end = None
  /\ clicks = 0
  /\ pc = "main"
  /\ ret = None
  /\ NoRun

Next ==
  \/ \E button \in Mouse \ {"none"}, node \in Nodes(total_rows), key \in Keys :
       HandleEvent(button, node, key)
  \/ \E key \in Keys : HandleEvent("none", None, key)
  \/ Expand
  \/ Close
  \/ Exhausted
  \/ ReconstructStep
  \/ Found
  \/ Quit

Spec == Init /\ [][Next]_vars

\* ------------------------------------------------------------- algorithm() called directly
\* A layout painted on an 8 x 8 grid: the nodes that are not Wall.
MazeFree ==
  {<<2, c>> : c \in 2 .. 7}
    \cup {<<3, c>> : c \in {0, 1, 2, 4, 5, 7}}
    \cup {<<4, c>> : c \in {0, 2, 5, 6, 7}}
    \cup {<<5, c>> : c \in {0, 2, 3, 4, 5}}

\* A layout painted on a 7 x 7 grid: the nodes that are not Wall.
DetourFree ==
  {<<0, 5>>}
    \cup {<<3, c>> : c \in 2 .. 5}
    \cup {<<4, c>> : c \in {0, 1, 2, 5}}
    \cup {<<5, c>> : c \in {0, 2, 3, 5}}
    \cup {<<6, c>> : c \in 0 .. 5}

\* The grids algorithm() is called on: <<side, walls>>.
Layouts ==
  UNION {{<<n, w>> : w \in {x \in SUBSET Nodes(n) : Cardinality(x) <= MaxWalls}} :
           n \in 1 .. MaxRows}
    \cup {<<n, {}>> : n \in 1 .. OpenRows}
    \cup {<<8, Nodes(8) \ MazeFree>>}
    \cup {<<7, Nodes(7) \ DetourFree>>}

\* The colours of a grid with the given walls, start and end, painted as main()
\* paints them (make_start, then make_end).
Painted(n, w, s, e) ==
  [x \in Nodes(n) |-> IF x = e THEN yellow
                       ELSE IF x = s THEN blue
                       ELSE IF x \in w THEN black
                       ELSE default]

\* The state in which algorithm(draw, grid, start, end) starts its loop, the
\* neighbors just recomputed, for every layout, start and end.
AlgInit ==
  \E lay \in Layouts :
    \E s \in Nodes(lay[1]) \ lay[2], e \in Nodes(lay[1]) \ lay[2] :
      /\ total_rows = lay[1]
      /\ color = Painted(lay[1], lay[2], s, e)
      /\ neighbors = [x \in Nodes(lay[1]) |->
                        update_neighbors(Painted(lay[1], lay[2], s, e), lay[1], x)]
      /\ start = s
      /\ end = e
      /\ clicks = 0
      /\ pc = "loop"
      /\ ret = None
      /\ count = 0
      /\ open_set = {<<0, 0, s>>}
      /\ came_from = [x \in Nodes(lay[1]) |-> None]
      /\ g_score = [x \in Nodes(lay[1]) |-> IF x = s THEN 0 ELSE Inf]
      /\ f_score = [x \in Nodes(lay[1]) |-> IF x = s THEN heuristic(s, e) ELSE Inf]
      /\ open_set_hash = {s}
      /\ current = None
      /\ walked = 0
      /\ rdraws = 0
      /\ pathTagged = {}
      /\ walls0 = lay[2]
      /\ pops = {}

AlgNext ==
  \/ Expand
  \/ Close
  \/ Exhausted
  \/ ReconstructStep
  \/ Found

AlgSpec == AlgInit /\ [][AlgNext]_vars

\* algorithm() runs on main()'s thread and nothing but a QUIT event stops
\* it between two steps: a step that can be taken is taken.  The last
\* conjunct is WF_vars(Expand) with ENABLED <<Expand>>_vars written out (a
\* step of Expand always changes pc).
ExpandEnabled == pc = "loop" /\ open_set # {}
LiveAlgSpec ==
  /\ AlgInit
  /\ [][AlgNext]_vars
  /\ WF_vars(Close)
  /\ WF_vars(Exhausted)
  /\ WF_vars(ReconstructStep)
  /\ WF_vars(Found)
  /\ ([]<>(~ExpandEnabled) \/ []<><<Expand>>_vars)

\* ------------------------------------------------------------- the graph of the grid
\* The nodes of the grid that were not Wall when the run was started.
Passable == DOMAIN color \ walls0

\* Breadth-first search from the nodes of frontier, d steps from the source,
\* over orthogonally adjacent passable nodes: the steps to target, or Inf.
RECURSIVE Bfs(_, _, _, _)
Bfs(seen, frontier, d, target) ==
  IF target \in frontier THEN d
  ELSE IF frontier = {} THEN Inf
  ELSE LET nxt == {y \in Passable \ seen :
                     \E x \in frontier : heuristic(x, y) = 1}
       IN Bfs(seen \cup nxt, nxt, d + 1, target)

\* Length of a shortest path from start to end, Inf when there is none.
Distance == Bfs({start}, {start}, 0, end)

\* The nodes that can be reached from start over passable nodes.
RECURSIVE Reach(_, _)
Reach(seen, frontier) ==
  IF frontier = {} THEN seen
  ELSE LET nxt == {y \in Passable \ seen :
                     \E x \in frontier : heuristic(x, y) = 1}
       IN Reach(seen \cup nxt, nxt)
Reachable == Reach({start}, {start})

Running == pc \in {"loop", "drawn", "reconstruct"}
InRun == pc \in {"loop", "drawn", "reconstruct", "returned"}

\* ------------------------------------------------------------- claims

\* C1: whenever algorithm() returns True with start # end, the number of
\* predecessor steps reconstruct_path walked from end back to start is the
\* breadth-first distance from start to end over the non-Wall nodes.
C1_ShortestPath ==
  (pc = "returned" /\ ret = TRUE /\ start # end) => walked = Distance

\* C2: on a grid with no Wall, algorithm() never returns False, and when it
\* returns the path walked has the Manhattan distance of start and end as
\* its length.
C2_OpenGridManhattan ==
  (InRun /\ Passable = Nodes(total_rows)) =>
    /\ ~(pc = "loop" /\ open_set = {})
    /\ pc = "returned" => (ret = TRUE /\ walked = heuristic(start, end))

\* C2, reached: the 5 x 5 open grid from (0,0) to (4,4) returns True with a
\* path of 8 steps.
C2_Witness ==
  /\ total_rows = 5 /\ Passable = Nodes(5)
  /\ start = <<0, 0>> /\ end = <<4, 4>>
  /\ pc = "returned" /\ ret = TRUE /\ walked = 8

\* C3: when end cannot be reached from start over non-Wall nodes, the run
\* never enters reconstruct_path, tags no node Path, and returns False.
C3_BlockedFails ==
  (InRun /\ Distance = Inf) =>
    /\ pc # "reconstruct"
    /\ pathTagged = {}
    /\ pc = "returned" => ret = FALSE

\* C3, reached: the 3 x 3 grid with its middle row walled, from (0,1) to
\* (2,1), has returned False.
C3_Witness ==
  /\ total_rows = 3 /\ start = <<0, 1>> /\ end = <<2, 1>>
  /\ \A c \in 0 .. 2 : color[<<1, c>>] = black
  /\ pc = "returned" /\ ret = FALSE /\ pathTagged = {}

\* C4: when end can be reached from start over non-Wall nodes, the queue
\* is never empty at the top of the loop and algorithm() does not return
\* False.
C4_ReachableSucceeds ==
  (InRun /\ Distance # Inf) =>
    /\ ~(pc = "loop" /\ open_set = {})
    /\ pc = "returned" => ret = TRUE

\* C4, reached: a run around walls (the path is longer than the Manhattan
\* distance) has returned True.
C4_Witness ==
  /\ pc = "returned" /\ ret = TRUE
  /\ Distance # Inf /\ Distance > heuristic(start, end)

\* C9: called with start = end, algorithm() goes from its first pop
\* straight to returning True: no neighbour is relaxed or pushed, no node
\* becomes Open, Closed or Path.
C9_StartIsEnd ==
  (InRun /\ start = end) =>
    /\ pc # "drawn"
    /\ count = 0
    /\ walked = 0
    /\ pathTagged = {}
    /\ \A x \in DOMAIN color : color[x] \notin {cyan, turquoise, white}
    /\ \A x \in DOMAIN came_from : came_from[x] = None
    /\ pc = "returned" => ret = TRUE

\* C9, reached: a call with start = end, on a grid where start has a
\* passable neighbour, has returned True.
C9_Witness ==
  /\ start = end /\ pc = "returned" /\ ret = TRUE
  /\ neighbors[start] # <<>>

\* C5: in every frame of a run with start # end, and when it has returned,
\* the start node still has the Start colour.
C5_StartKeepsTag ==
  (InRun /\ start # end) => color[start] = blue

\* C6: at every draw() made by reconstruct_path and when algorithm() has
\* returned True, the end node has the End colour; make_path() is never
\* called on it; reconstruct_path draws once per node walked.
C6_EndKeepsTag ==
  ((pc = "reconstruct" /\ rdraws > 0) \/ (pc = "returned" /\ ret = TRUE)) =>
    /\ color[end] = yellow
    /\ end \notin pathTagged
    /\ rdraws = walked

\* C7: in every state of main() and every frame of a search, at most one
\* node has the Start colour and at most one has the End colour.
C7_OneStartOneEnd ==
  /\ Cardinality({x \in DOMAIN color : color[x] = blue}) <= 1
  /\ Cardinality({x \in DOMAIN color : color[x] = yellow}) <= 1

\* C7, reached: a search on a grid with walls has returned False with one
\* Start node and one End node on the grid.
C7_Witness ==
  /\ pc = "returned" /\ ret = FALSE
  /\ Cardinality({x \in DOMAIN color : color[x] = blue}) = 1
  /\ Cardinality({x \in DOMAIN color : color[x] = yellow}) = 1
  /\ \E x \in DOMAIN color : color[x] = black

\* C8: an event of main() gives start a new node only if start was None
\* and the node is not end; gives end a new node only if end was None, start
\* was set and the node is not start; paints a node Wall only if start and
\* end are both set and the node is neither.  The nodes start and end refer
\* to are never Wall.
C8_ClickRules ==
  /\ [](/\ start # None => color[start] # black
        /\ end # None => color[end] # black)
  /\ [][(pc \in {"main", "returned"} /\ pc' # "exit") =>
          /\ (start' # None /\ start' # start) => (start = None /\ start' # end)
          /\ (end' # None /\ end' # end) =>
               (end = None /\ start # None /\ end' # start)
          /\ \A x \in DOMAIN color :
               (color'[x] = black /\ color[x] # black) =>
                 (start # None /\ end # None /\ x # start /\ x # end)]_vars

\* C8, reached: with start and end set, a left click has painted a Wall.
C8_Witness ==
  /\ pc = "main" /\ start # None /\ end # None
  /\ \E x \in DOMAIN color : color[x] = black

\* C10: a run of algorithm() that no QUIT event ends reaches its return.
C10_Terminates == (pc = "loop") ~> (pc = "returned")

\* C10, reached: a run that pushed five nodes or more and never reached end
\* has returned False.
C10_Witness ==
  /\ pc = "returned" /\ count >= 5 /\ ret = FALSE

\* C11: within a run no node's recorded g_score ever increases: over every
\* step of the run, g_score'[x] <= g_score[x] for every node x (float("inf")
\* being the greatest value).
C11_GScoreMonotone ==
  [][(Running /\ pc' # "exit") =>
       \A x \in DOMAIN g_score :
         \/ g_score[x] = Inf
         \/ g_score'[x] # Inf /\ g_score'[x] <= g_score[x]]_vars

\* C11, reached: a queued node's g_score has gone down from one finite value
\* to a smaller one (its entry in the queue still carries the f it was pushed
\* with, which is no longer its f_score).
C11_Witness ==
  /\ pc = "loop"
  /\ \E e \in open_set :
       /\ e[2] > 0
       /\ e[1] > f_score[e[3]]
       /\ g_score[e[3]] = f_score[e[3]] - heuristic(e[3], end)

\* C12: every push of a run takes a sequence number greater than every
\* number taken before it, one new number per push; and the entry a pop takes
\* out has the least sequence number of the queued entries with its f.
C12_TieBreak ==
  [][(Running /\ pc' # "exit") =>
       /\ \A e \in open_set' \ open_set : count < e[2] /\ e[2] <= count'
       /\ \A a, b \in open_set' \ open_set : a[2] = b[2] => a = b
       /\ Cardinality(open_set' \ open_set) = count' - count
       /\ \A p \in open_set \ open_set' :
            \A o \in open_set \ {p} : o[1] = p[1] => p[2] < o[2]]_vars

\* C12, reached: the pop of this pass took an entry out while an entry with
\* the same f and a greater sequence number was queued (one this pass did
\* not push: its node's predecessor is not the popped node), and that entry
\* is still queued.
C12_Witness ==
  /\ pc = "drawn"
  /\ \E p \in pops :
       /\ p[3] = current
       /\ \A r \in pops : r[3] = current => r[2] <= p[2]
       /\ \E o \in open_set :
            /\ o[1] = p[1]
            /\ o[2] > p[2]
            /\ came_from[o[3]] # current

\* C13: at every pop, the popped node's recorded f_score is at most the
\* recorded f_score of every node still in open_set_hash.
C13_PopsMinFScore ==
  [][(pc = "loop" /\ pc' \in {"drawn", "reconstruct"}) =>
       \A x \in open_set_hash \ {current'} :
         f_score[current'] <= f_score[x]]_vars

\* C14: at the top of every pass of the loop, open_set_hash is the set of
\* the nodes that have an entry in open_set, and no node has two entries.
C14_HashMirrorsQueue ==
  pc = "loop" =>
    /\ open_set_hash = {e[3] : e \in open_set}
    /\ \A a, b \in open_set : a[3] = b[3] => a = b

\* C14, reached: at the top of the loop three nodes or more are queued, one
\* of which was relaxed again while queued (its g_score went down and no
\* second entry was pushed).
C14_Witness ==
  /\ pc = "loop"
  /\ Cardinality(open_set) >= 3
  /\ \E e \in open_set : e[2] > 0 /\ e[1] > f_score[e[3]]

\* C16: within a run every node is popped at most once (no two popped
\* entries are of one node), and a node that was popped is never queued
\* again.
C16_PoppedOnce ==
  InRun =>
    /\ \A a, b \in pops : a[3] = b[3] => a = b
    /\ \A p \in pops : p[3] \notin open_set_hash

\* C17: whenever algorithm() returns True, end was popped, reconstruct_path
\* has stepped back to start, and the number of predecessor steps it walked
\* is g_score[end] as it was when end was popped (nothing writes g_score
\* after that pop).
C17_WalkedIsGScore ==
  (pc = "returned" /\ ret = TRUE) =>
    /\ end \in {p[3] : p \in pops}
    /\ current = start
    /\ walked = g_score[end]

\* C17, reached: a run has returned True in which the g_score of end, or of
\* a node of the path, went down while the node was queued (it was popped
\* from an entry whose f is greater than its f_score).
C17_Witness ==
  /\ pc = "returned" /\ ret = TRUE
  /\ walked > heuristic(start, end)
  /\ \E p \in pops :
       /\ p[2] > 0
       /\ p[3] \in pathTagged \cup {end}
       /\ p[1] > f_score[p[3]]

\* C15: when a search started from main() begins (whatever was painted,
\* reset, searched or cleared before), the neighbors of every node are
\* exactly the orthogonally adjacent nodes of the grid that are not Wall
\* now, each listed once.
C15_FreshNeighbors ==
  (pc = "loop" /\ current = None) =>
    \A x \in Nodes(total_rows) :
      /\ {neighbors[x][i] : i \in 1 .. Len(neighbors[x])} =
           {y \in Nodes(total_rows) : heuristic(x, y) = 1 /\ color[y] # black}
      /\ Len(neighbors[x]) =
           Cardinality({y \in Nodes(total_rows) :
                          heuristic(x, y) = 1 /\ color[y] # black})

\* C15, reached: a second search begins after a Wall was painted on the path
\* the first search found from (0,0) to (0,2) (three clicks: start, end and
\* that Wall; the start node still carries the first search's Path colour),
\* and the Wall is no neighbour of start.
C15_Witness ==
  /\ pc = "loop" /\ current = None
  /\ clicks = 3
  /\ start = <<0, 0>> /\ end = <<0, 2>>
  /\ color[start] = white
  /\ color[<<0, 1>>] = black
  /\ color[<<1, 1>>] # white
  /\ neighbors[start] = <<(<<1, 0>>)>>

\* C18: at the top of every pass of the loop of a search started from
\* main(), a re-run on a grid that was not cleared included, every node that
\* has the Open colour has an entry in open_set and no node that has the
\* Closed colour has one.
C18_TagsMatchQueue ==
  pc = "loop" =>
    \A x \in DOMAIN color :
      /\ color[x] = cyan => x \in {e[3] : e \in open_set}
      /\ color[x] = turquoise => x \notin {e[3] : e \in open_set}

\* C19: no step of a run changes the colour of a node that was Wall when
\* the run started or of a node that cannot be reached from start over
\* non-Wall nodes (so only reachable nodes become Open, Closed or Path), and
\* the nodes that were Wall stay Wall.
C19_Frame ==
  /\ [](InRun => \A x \in walls0 : color[x] = black)
  /\ [][(Running /\ pc' # "exit") =>
          \A x \in DOMAIN color \ Reachable : color'[x] = color[x]]_vars

\* C19, reached: a run on a grid with Walls and with a non-Wall node other
\* than end that cannot be reached has closed a node and returned, the
\* unreachable node still without a tag.
C19_Witness ==
  /\ pc = "returned"
  /\ walls0 # {}
  /\ \E x \in DOMAIN color : color[x] = turquoise
  /\ \E x \in Passable \ (Reachable \cup {end}) : color[x] = default

====
